---- MODULE Spec2Model ----
(***************************************************************************)
(* Chibi-Tomo: the Pomodoro timer / phase state machine of src/main.py     *)
(* (class ChibiTomo), with the QTimer that drives it and the notification  *)
(* events it emits.                                                        *)
(*                                                                         *)
(* Program state (ChibiTomo.__init__, lines 356-364):                      *)
(*   durations, phase, secs, session_count, _notified_50, _notified_25,    *)
(*   and the QTimer: whether it is active and how long until its timeout.  *)
(* History variables (not in the program) record what the handlers did:    *)
(*   ticks, ev50, ev25, evDone, at50, at25, fails  per phase instance,     *)
(*   lastOp, dispatch_failed, focus_done           per step / per reset.   *)
(* Around it: the session label, the notification sinks and their two      *)
(* preferences, the window opacity, and the QSettings keys that survive a   *)
(* close and are read again by the next start of the application.          *)
(***************************************************************************)
EXTENDS Integers, FiniteSets, Sequences, TLC

VARIABLES
    durations,       \* self.durations : Durations(focus, brk, long_brk, sessions)
    phase,           \* self.phase : "focus" | "break" | "long_break"
    secs,            \* self.secs : remaining seconds
    session_count,   \* self.session_count
    notified_50,     \* self._notified_50
    notified_25,     \* self._notified_25
    timer_active,    \* self._timer.isActive()
    timer_left,      \* time quanta until self._timer times out (0 when due or stopped)
    ticks,           \* history: _tick calls received by the current phase instance
    ev50,            \* history: "50% remaining" events emitted in this phase instance
    ev25,            \* history: "25% remaining" events emitted in this phase instance
    evDone,          \* history: phase-over events emitted in this phase instance
    at50,            \* history: value of ticks when "50% remaining" was emitted (0: not yet)
    at25,            \* history: value of ticks when "25% remaining" was emitted (0: not yet)
    fails,           \* history: failed phase-over dispatches in this phase instance
    lastOp,          \* history: the handler that made the last step
    dispatch_failed, \* history: the last step called a notification sink and it raised
    focus_done,      \* history: Focus phases completed since the last reset()
    requested,       \* history: the Durations last handed to the program
    notify_popup,    \* QSettings "notify_popup" (read by _notify at every event)
    notify_sound,    \* QSettings "notify_sound"
    lbl_visible,     \* self.lbl_sessions is shown
    lbl_text,        \* self.lbl_sessions text "Session n/total", as <<n, total>>
    out,             \* history: what the last step sent to the sinks (bubble, tray, beep)
    emitted,         \* history: the threshold events the last step emitted
    held,            \* history: pause() was called in this phase instance at secs = 0
    app,             \* "running" | "closed" | "crashed" (the process)
    store,           \* QSettings keys d_focus, d_break, d_long_break, d_sessions, opacity
                     \* (<<>>: key missing, <<v>>: value v; opacity in OpacityUnits)
    opacity,         \* self.windowOpacity(), in OpacityUnits
    dialogs,         \* _show_custom_settings calls waiting in dialog.exec()
    opacity_checked, \* the opacity preset marked in the menu (0: none)
    chosen_opacity   \* history: the opacity preset last picked in the menu (0: none)

vars == <<durations, phase, secs, session_count, notified_50, notified_25,
          timer_active, timer_left, ticks, ev50, ev25, evDone, at50, at25,
          fails, lastOp, dispatch_failed, focus_done, requested,
          notify_popup, notify_sound, lbl_visible, lbl_text, out, emitted, held,
          app, store, opacity, opacity_checked, chosen_opacity, dialogs>>

\* what the timer handlers leave alone
appVars == <<app, store, opacity, opacity_checked, chosen_opacity, dialogs>>

(***************************************************************************)
(* Bounds of the model                                                     *)
(***************************************************************************)
\* the QTimer interval (1000 ms) is divided into this many quanta of time
Quanta == 2
\* Focus completions are followed up to this value of session_count
MaxSessionCount == 4
\* failed phase-over dispatches followed per phase instance
MaxDispatchFailures == 1
\* custom-duration dialogs followed open at the same time
MaxDialogs == 1

(***************************************************************************)
(* Data model                                                              *)
(***************************************************************************)
SecondsPerMinute == 60

\* each of _msgs_50, _msgs_25, _msgs_done holds this many strings
PoolSize == 10

\* Python's a % b for b # 0 (the result has the sign of b)
PyMod(a, b) == IF b > 0 THEN a % b ELSE -((-a) % (-b))

Phases == {"focus", "break", "long_break"}

Durations(f, b, l, s) == [focus |-> f, brk |-> b, long_brk |-> l, sessions |-> s]

DefaultDurations == Durations(25, 5, 15, 4)

\* the presets of the context menu
Modes == {Durations(25, 5, 15, 4), Durations(50, 10, 20, 4)}

\* values accepted in the custom-duration dialog (spin boxes: focus 1..120,
\* break 1..60, long break 1..60, sessions 1..12); the dialog can return any
\* of them, the model follows these three
CustomChoices == {Durations(1, 1, 2, 2), Durations(2, 1, 1, 3), Durations(1, 2, 1, 1)}

\* what QSettings can hold at startup: nothing (defaults) or what a run saved
StoredDurations == {DefaultDurations} \cup Modes \cup CustomChoices

\* total = (focus | long_brk | brk) * 60
PhaseTotal(d, p) ==
    (IF p = "focus" THEN d.focus
     ELSE IF p = "long_break" THEN d.long_brk
     ELSE d.brk) * SecondsPerMinute

\* variant: the comparison is strict
AtMostHalf_Strict(s, total) == 2 * s < total

\* progress <= 0.5, progress = secs / total (floats; exact on these integers)
AtMostHalf(s, total) == 2 * s <= total
\* progress <= 0.25
AtMostQuarter(s, total) == 4 * s <= total

(***************************************************************************)
(* The handlers, as functions on the state record                          *)
(***************************************************************************)
Cur ==
    [durations |-> durations, phase |-> phase, secs |-> secs,
     session_count |-> session_count,
     notified_50 |-> notified_50, notified_25 |-> notified_25,
     timer_active |-> timer_active, timer_left |-> timer_left,
     ticks |-> ticks, ev50 |-> ev50, ev25 |-> ev25, evDone |-> evDone,
     at50 |-> at50, at25 |-> at25, fails |-> fails,
     notify_popup |-> notify_popup, notify_sound |-> notify_sound,
     lbl_visible |-> lbl_visible, lbl_text |-> lbl_text,
     out |-> {}, emitted |-> {},   \* nothing sent yet by the handler about to run
     rnd |-> 1,                    \* what random.choice picks in this handler run
     sink_ok |-> TRUE,             \* the display sinks work in this handler run
     beep_ok |-> TRUE]             \* QApplication.beep() works in this handler run

Install(s) ==
    /\ durations' = s.durations
    /\ phase' = s.phase
    /\ secs' = s.secs
    /\ session_count' = s.session_count
    /\ notified_50' = s.notified_50
    /\ notified_25' = s.notified_25
    /\ timer_active' = s.timer_active
    /\ timer_left' = s.timer_left
    /\ ticks' = s.ticks
    /\ ev50' = s.ev50
    /\ ev25' = s.ev25
    /\ evDone' = s.evDone
    /\ at50' = s.at50
    /\ at25' = s.at25
    /\ fails' = s.fails
    /\ notify_popup' = s.notify_popup
    /\ notify_sound' = s.notify_sound
    /\ lbl_visible' = s.lbl_visible
    /\ lbl_text' = s.lbl_text
    /\ out' = s.out
    /\ emitted' = s.emitted

\* QTimer.start(): starts the timer, or stops and restarts it when it is active;
\* either way the next timeout is a whole interval away
Start(s) == [s EXCEPT !.timer_active = TRUE, !.timer_left = Quanta]

\* QTimer.stop()
Pause(s) == [s EXCEPT !.timer_active = FALSE, !.timer_left = 0]

\* str.lower() on the letters A-Z
UpperCase == "ABCDEFGHIJKLMNOPQRSTUVWXYZ"
LowerCase == "abcdefghijklmnopqrstuvwxyz"

LowerChar(c) ==
    IF \E i \in 1..Len(UpperCase) : SubSeq(UpperCase, i, i) = c
    THEN LET i == CHOOSE i \in 1..Len(UpperCase) : SubSeq(UpperCase, i, i) = c
         IN  SubSeq(LowerCase, i, i)
    ELSE c

RECURSIVE Lower(_)
Lower(str) ==
    IF Len(str) = 0 THEN ""
    ELSE LowerChar(SubSeq(str, 1, 1)) \o Lower(SubSeq(str, 2, Len(str)))

\* w in str (substring test)
Contains(str, w) ==
    \E i \in 1..(Len(str) - Len(w) + 1) : SubSeq(str, i, i + Len(w) - 1) = w

\* the words _notify looks for in the title
NotifyWords ==
    {"50%", "halfway", "25%", "final", "final stretch", "over", "done",
     "complete", "time"}

\* which of them the title holds: "50%" and "25%" are looked for in the title
\* and in its lower-case form, the others in the lower-case form
TitleWords(title) ==
    LET low == Lower(title) IN
    {w \in NotifyWords : Contains(low, w)}
        \cup {w \in {"50%", "25%"} : Contains(title, w)}

\* the pool _notify draws from: the first branch of its if/elif chain that
\* finds one of its words
PoolFor(title) ==
    LET w == TitleWords(title) IN
    IF w \cap {"50%", "halfway"} # {} THEN "msgs_50"
    ELSE IF w \cap {"25%", "final", "final stretch"} # {} THEN "msgs_25"
    ELSE IF w \cap {"over", "done", "complete", "time"} # {} THEN "msgs_done"
    ELSE "none"

Output(sink, event, pool, idx) ==
    [sink |-> sink, event |-> event, text |-> [pool |-> pool, idx |-> idx]]

\* _notify(title, message): bubble with the chosen text when popups are on
\* (_show_bubble swallows its own exceptions), else the tray message with
\* title and message; then the beep when sound is on. An exception of
\* tray.showMessage or of beep is caught by the outer try: nothing propagates,
\* and a raising tray.showMessage skips the beep.
Notify(s, event, title) ==
    LET pool == PoolFor(title)
        chosen == IF pool = "none" THEN Output("bubble", event, "title_message", 0)
                  ELSE Output("bubble", event, pool, s.rnd)
        shown == IF ~s.sink_ok THEN {}
                 ELSE IF s.notify_popup THEN {chosen}
                 ELSE {Output("tray", event, "title_message", 0)}
        beep == IF s.notify_sound /\ (s.notify_popup \/ s.sink_ok) /\ s.beep_ok
                THEN {Output("beep", event, "none", 0)} ELSE {}
    IN  [s EXCEPT !.out = @ \cup shown \cup beep]

\* variant: the event is emitted but the flag is not set
Notify50_NoFlag(s) ==
    LET total == PhaseTotal(s.durations, s.phase) IN
    IF AtMostHalf(s.secs, total) /\ ~s.notified_50
    THEN [Notify(s, "half", "50% remaining")
             EXCEPT !.ev50 = @ + 1, !.at50 = s.ticks, !.emitted = @ \cup {"half"}]
    ELSE s

\* the two threshold checks of _update_display; _notify swallows every
\* exception of its sinks, so the flag is set whether or not the sink worked
Notify50(s) ==
    LET total == PhaseTotal(s.durations, s.phase) IN
    IF AtMostHalf(s.secs, total) /\ ~s.notified_50
    THEN [Notify(s, "half", "50% remaining")
             EXCEPT !.notified_50 = TRUE, !.ev50 = @ + 1, !.at50 = s.ticks,
                    !.emitted = @ \cup {"half"}]
    ELSE s

Notify25(s) ==
    LET total == PhaseTotal(s.durations, s.phase) IN
    IF AtMostQuarter(s.secs, total) /\ ~s.notified_25
    THEN [Notify(s, "quarter", "25% remaining")
             EXCEPT !.notified_25 = TRUE, !.ev25 = @ + 1, !.at25 = s.ticks,
                    !.emitted = @ \cup {"quarter"}]
    ELSE s

\* variant: the label counts sessions without wrapping at durations.sessions
SessionNumber_NoWrap(count, sessions) == count + 1

\* n of "Session n/total"
SessionNumber(count, sessions) == PyMod(count, sessions) + 1

\* the session label at the end of _update_display (hide() keeps the text)
SessionLabel(s) ==
    IF s.phase = "focus"
    THEN [s EXCEPT !.lbl_text = <<SessionNumber(s.session_count, s.durations.sessions),
                                  s.durations.sessions>>,
                   !.lbl_visible = TRUE]
    ELSE [s EXCEPT !.lbl_visible = FALSE]

\* _update_display
UpdateDisplay(s) ==
    LET total == PhaseTotal(s.durations, s.phase) IN
    SessionLabel(IF total > 0 /\ s.timer_active
                 THEN Notify25(Notify50(s))
                 ELSE s)

\* variant: set_phase leaves the notification flags as they are
SetPhase_KeepsFlags(s, p) ==
    UpdateDisplay(
        [s EXCEPT !.phase = p,
                  !.secs = PhaseTotal(s.durations, p),
                  !.ticks = 0, !.ev50 = 0, !.ev25 = 0, !.evDone = 0,
                  !.at50 = 0, !.at25 = 0, !.fails = 0])

\* set_phase(p): a new phase instance begins
SetPhase(s, p) ==
    UpdateDisplay(
        [s EXCEPT !.phase = p,
                  !.notified_50 = FALSE,
                  !.notified_25 = FALSE,
                  !.secs = PhaseTotal(s.durations, p),
                  !.ticks = 0, !.ev50 = 0, !.ev25 = 0, !.evDone = 0,
                  !.at50 = 0, !.at25 = 0, !.fails = 0])

\* variant: reset() without its pause()
Reset_KeepsRunning(s) ==
    SetPhase([s EXCEPT !.session_count = 0,
                       !.notified_50 = FALSE,
                       !.notified_25 = FALSE],
             "focus")

\* reset()
Reset(s) ==
    SetPhase([Pause(s) EXCEPT !.session_count = 0,
                              !.notified_50 = FALSE,
                              !.notified_25 = FALSE],
             "focus")

\* variant: the long break is decided on the count before its increment
NextPhase_BeforeIncrement(p, count, d) ==
    IF p = "focus"
    THEN (IF (count - 1) % d.sessions = 0 THEN "long_break" ELSE "break")
    ELSE "focus"

\* next_phase of _tick, from the phase that ended and the incremented count
NextPhase(p, count, d) ==
    IF p = "focus"
    THEN (IF PyMod(count, d.sessions) = 0 THEN "long_break" ELSE "break")
    ELSE "focus"

\* what the completion branch of _tick sends, whatever the preferences:
\* tray.showMessage("<Phase> Over!", "Time to switch tasks.") and then a beep
PhaseOverMessage == Output("tray", "done", "title_message", 0)

PhaseOverBeep == Output("beep", "done", "none", 0)

PhaseOver == {PhaseOverMessage, PhaseOverBeep}

\* _tick; sink_ok: the display sink (tray.showMessage, bubble) returns
\* normally, beep_ok: QApplication.beep() does. In the completion branch both
\* are called outside any try block, the tray message first: an exception
\* there leaves _tick with the timer stopped and the phase not advanced.
Tick(s, sink_ok, beep_ok) ==
    IF s.secs <= 0
    THEN LET stopped == [Pause(s) EXCEPT !.ticks = @ + 1, !.evDone = @ + 1] IN
         IF ~sink_ok
         THEN [stopped EXCEPT !.fails = @ + 1]
         ELSE IF ~beep_ok
         THEN [stopped EXCEPT !.fails = @ + 1, !.out = @ \cup {PhaseOverMessage}]
         ELSE LET count == IF s.phase = "focus" THEN s.session_count + 1
                           ELSE s.session_count
                  counted == [stopped EXCEPT !.session_count = count,
                                             !.out = @ \cup PhaseOver]
              IN  Start(SetPhase(counted, NextPhase(s.phase, count, s.durations)))
    ELSE UpdateDisplay([s EXCEPT !.secs = @ - 1, !.ticks = @ + 1,
                                 !.sink_ok = sink_ok, !.beep_ok = beep_ok])

\* variant: the new Durations are installed and the flags and the count
\* cleared, but the timer is not paused and the phase not entered anew
ApplyMode_InPlace(s, d) ==
    UpdateDisplay([s EXCEPT !.durations = d, !.session_count = 0,
                            !.notified_50 = FALSE, !.notified_25 = FALSE])

\* variant: reset() runs before the new Durations are installed
ApplyMode_ResetFirst(s, d) == [Reset(s) EXCEPT !.durations = d]

\* _apply_mode(focus, brk, long_brk, sessions)
ApplyMode(s, d) == Reset([s EXCEPT !.durations = d])

\* variant: the new Durations are installed without reset()
ApplyCustom_NoReset(s, d) == [s EXCEPT !.durations = d]

\* _show_custom_settings, dialog accepted with the values d
ApplyCustom(s, d) == Reset([s EXCEPT !.durations = d])

\* does _tick on s call a display sink?
Dispatches(s) ==
    \/ s.secs <= 0
    \/ LET t == [s EXCEPT !.secs = @ - 1] IN UpdateDisplay(t).emitted # {}

\* does _tick on s call QApplication.beep(), the display sink behaving as
\* sink_ok says?
Beeps(s, sink_ok) ==
    \E o \in Tick(s, sink_ok, TRUE).out : o.sink = "beep"

(***************************************************************************)
(* Persisted settings (QSettings) and the window opacity                   *)
(***************************************************************************)
\* a key of the store is <<>> when missing and <<v>> when it holds v
EmptyStore ==
    [d_focus |-> <<>>, d_break |-> <<>>, d_long_break |-> <<>>, d_sessions |-> <<>>,
     opacity |-> <<>>]

\* s.value(key, default)
Get(st, key, default) == IF st[key] = <<>> THEN default ELSE st[key][1]

\* variant: the session count is saved under the long-break key
SaveSettings_WrongKey(st, d, op) ==
    [st EXCEPT !.d_focus = <<d.focus>>, !.d_break = <<d.brk>>,
               !.d_long_break = <<d.sessions>>, !.d_sessions = <<d.sessions>>,
               !.opacity = <<op>>]

\* _save_settings: the four durations and the window opacity
SaveSettings(st, d, op) ==
    [st EXCEPT !.d_focus = <<d.focus>>, !.d_break = <<d.brk>>,
               !.d_long_break = <<d.long_brk>>, !.d_sessions = <<d.sessions>>,
               !.opacity = <<op>>]

\* the Durations built at the end of _load_settings
LoadDurations(st) ==
    Durations(Get(st, "d_focus", 25), Get(st, "d_break", 5),
              Get(st, "d_long_break", 15), Get(st, "d_sessions", 4))

\* Opacities are floats in the program: the preset values p / 100 and the
\* values n / 255 that Qt's 8-bit window opacity can take. Both are whole
\* numbers of OpacityUnits-th parts of 1: one percent is PercentUnits of them,
\* one opacity level LevelUnits.
OpacityUnits == 5100
PercentUnits == 51
LevelUnits == 20

\* the opacity presets of the menu, in percent
OpacityPresets == {5, 25, 50, 75, 100}

\* the float the menu entry p% hands to _apply_opacity
PresetValue(p) == p * PercentUnits

\* max(0.2, min(1.0, opacity))
ClampOpacity(x) ==
    IF x > OpacityUnits THEN OpacityUnits
    ELSE IF x < 20 * PercentUnits THEN 20 * PercentUnits
    ELSE x

\* what windowOpacity() returns after setWindowOpacity(x): Qt keeps
\* uint(x * 255) and returns it divided by 255
WindowOpacity(x) == LevelUnits * (x \div LevelUnits)

\* the preset _load_settings marks in the menu for a stored opacity (0: none):
\* the one whose value equals it
PresetFor(x) ==
    IF \E p \in OpacityPresets : PresetValue(p) = x
    THEN CHOOSE p \in OpacityPresets : PresetValue(p) = x
    ELSE 0

(***************************************************************************)
(* Initial state: __init__ = _load_settings() then reset()                 *)
(***************************************************************************)
Constructed(d) ==
    [durations |-> d, phase |-> "focus", secs |-> DefaultDurations.focus * SecondsPerMinute,
     session_count |-> 0, notified_50 |-> FALSE, notified_25 |-> FALSE,
     timer_active |-> FALSE, timer_left |-> 0,
     ticks |-> 0, ev50 |-> 0, ev25 |-> 0, evDone |-> 0,
     at50 |-> 0, at25 |-> 0, fails |-> 0,
     notify_popup |-> TRUE, notify_sound |-> TRUE,
     lbl_visible |-> TRUE, lbl_text |-> <<0, 0>>,
     out |-> {}, emitted |-> {}, rnd |-> 1, sink_ok |-> TRUE,
     beep_ok |-> TRUE]

\* the program state s holds, as the variables of an initial state
Holds(s) ==
    /\ durations = s.durations
    /\ phase = s.phase
    /\ secs = s.secs
    /\ session_count = s.session_count
    /\ notified_50 = s.notified_50
    /\ notified_25 = s.notified_25
    /\ timer_active = s.timer_active
    /\ timer_left = s.timer_left
    /\ ticks = s.ticks
    /\ ev50 = s.ev50
    /\ ev25 = s.ev25
    /\ evDone = s.evDone
    /\ at50 = s.at50
    /\ at25 = s.at25
    /\ fails = s.fails
    /\ notify_popup = s.notify_popup
    /\ notify_sound = s.notify_sound
    /\ lbl_visible = s.lbl_visible
    /\ lbl_text = s.lbl_text
    /\ out = s.out
    /\ emitted = s.emitted

\* __init__ on the store st with the notification preferences found there:
\* _load_settings marks the opacity preset whose value is the stored one,
\* applies (and persists) the clamped opacity and builds the Durations; reset() then enters Focus. With
\* d_sessions = 0 the label update of reset() divides by zero and the
\* constructor raises: the application does not come up.
Launch(st, popup, sound) ==
    LET d == LoadDurations(st)
        stored_op == Get(st, "opacity", 0)   \* value(..., None, type=float): 0.0 when missing
        op == ClampOpacity(stored_op)
        s0 == [Constructed(d) EXCEPT !.notify_popup = popup, !.notify_sound = sound]
        crash == d.sessions = 0
    IN  [s |-> IF crash THEN [s0 EXCEPT !.secs = d.focus * SecondsPerMinute]
               ELSE Reset(s0),
         app |-> IF crash THEN "crashed" ELSE "running",
         store |-> [st EXCEPT !.opacity = <<op>>],
         opacity |-> WindowOpacity(op),
         opacity_checked |-> PresetFor(stored_op),
         durations |-> d]

\* the state after construction from the store st
StartedFrom(st, popup, sound) ==
    LET l == Launch(st, popup, sound) IN
    /\ Holds(l.s)
    /\ app = l.app
    /\ store = l.store
    /\ opacity = l.opacity
    /\ opacity_checked = l.opacity_checked
    /\ chosen_opacity = 0
    /\ lastOp = "init"
    /\ dispatch_failed = FALSE
    /\ focus_done = 0
    /\ requested = l.durations
    /\ held = FALSE
    /\ dialogs = 0

\* the first start of a fresh installation: no key is stored
Init == StartedFrom(EmptyStore, TRUE, TRUE)

(***************************************************************************)
(* Actions                                                                 *)
(***************************************************************************)
\* time passes while the timer runs
Elapse ==
    /\ app = "running"
    /\ timer_active
    /\ timer_left > 0
    /\ timer_left' = timer_left - 1
    /\ lastOp' = "elapse"
    /\ dispatch_failed' = FALSE
    /\ out' = {}
    /\ emitted' = {}
    /\ UNCHANGED <<durations, phase, secs, session_count, notified_50, notified_25,
                   timer_active, ticks, ev50, ev25, evDone, at50, at25, fails,
                   focus_done, requested, notify_popup, notify_sound,
                   lbl_visible, lbl_text, held>>
    /\ UNCHANGED appVars

\* the QTimer times out and calls _tick; a repeating timer is due again one
\* interval later
TickAction ==
    /\ app = "running"
    /\ timer_active
    /\ timer_left = 0
    /\ \E sink_ok \in BOOLEAN, beep_ok \in BOOLEAN, pick \in 1..PoolSize :
        LET s == Tick([Cur EXCEPT !.rnd = pick], sink_ok, beep_ok)
            after == IF s.timer_active THEN Start(s) ELSE s
            failed == ~sink_ok \/ ~beep_ok
        IN  /\ pick # 1 => \E o \in s.out : o.sink = "bubble"
            /\ ~sink_ok => Dispatches(Cur)
            /\ ~beep_ok => Beeps(Cur, sink_ok)
            /\ (failed /\ secs <= 0) => fails < MaxDispatchFailures
            /\ (secs <= 0 /\ phase = "focus" /\ ~failed) => session_count < MaxSessionCount
            /\ Install(after)
            /\ lastOp' = "tick"
            /\ dispatch_failed' = failed
            /\ focus_done' = IF s.ticks = 0 /\ phase = "focus"
                             THEN focus_done + 1 ELSE focus_done
            /\ held' = (held /\ s.ticks # 0)
            /\ UNCHANGED requested
            /\ UNCHANGED appVars

\* menu "Start"
StartAction ==
    /\ app = "running"
    /\ Install(Start(Cur))
    /\ lastOp' = IF timer_active THEN "start_running" ELSE "start"
    /\ dispatch_failed' = FALSE
    /\ UNCHANGED <<focus_done, requested, held>>
    /\ UNCHANGED appVars

\* menu "Pause"
PauseAction ==
    /\ app = "running"
    /\ Install(Pause(Cur))
    /\ lastOp' = "pause"
    /\ dispatch_failed' = FALSE
    /\ held' = (held \/ secs <= 0)
    /\ UNCHANGED <<focus_done, requested>>
    /\ UNCHANGED appVars

\* menu "Reset"
ResetAction ==
    /\ app = "running"
    /\ Install(Reset(Cur))
    /\ lastOp' = "reset"
    /\ dispatch_failed' = FALSE
    /\ focus_done' = 0
    /\ held' = FALSE
    /\ UNCHANGED requested
    /\ UNCHANGED appVars

\* menu "Pomodoro (25/5)" / "50/10"
ApplyModeAction ==
    \E d \in Modes :
        /\ app = "running"
        /\ Install(ApplyMode(Cur, d))
        /\ lastOp' = "apply_mode"
        /\ dispatch_failed' = FALSE
        /\ focus_done' = 0
        /\ held' = FALSE
        /\ requested' = d
        /\ UNCHANGED appVars

\* menu "Custom...": _show_custom_settings builds the dialog and waits in
\* dialog.exec(), a nested event loop in which the QTimer's timeouts and the
\* tray icon's context menu go on being served
ShowCustomSettings ==
    /\ app = "running"
    /\ dialogs < MaxDialogs
    /\ Install(Cur)
    /\ dialogs' = dialogs + 1
    /\ lastOp' = "custom_open"
    /\ dispatch_failed' = FALSE
    /\ UNCHANGED <<focus_done, requested, held>>
    /\ UNCHANGED <<app, store, opacity, opacity_checked, chosen_opacity>>

\* the dialog is accepted: dialog.exec() returns and _show_custom_settings
\* installs the values of the dialog and calls reset()
DialogAccepted ==
    \E d \in CustomChoices :
        /\ app = "running"
        /\ dialogs > 0
        /\ Install(ApplyCustom(Cur, d))
        /\ dialogs' = dialogs - 1
        /\ lastOp' = "custom"
        /\ dispatch_failed' = FALSE
        /\ focus_done' = 0
        /\ held' = FALSE
        /\ requested' = d
        /\ UNCHANGED <<app, store, opacity, opacity_checked, chosen_opacity>>

\* the dialog is cancelled: _show_custom_settings returns without a change
DialogRejected ==
    /\ app = "running"
    /\ dialogs > 0
    /\ Install(Cur)
    /\ dialogs' = dialogs - 1
    /\ lastOp' = "custom_rejected"
    /\ dispatch_failed' = FALSE
    /\ UNCHANGED <<focus_done, requested, held>>
    /\ UNCHANGED <<app, store, opacity, opacity_checked, chosen_opacity>>

\* menu "Quit" / closing the window: closeEvent saves the settings and the
\* process ends (its timer with it)
CloseAction ==
    /\ app = "running"
    /\ store' = SaveSettings(store, durations, opacity)
    /\ app' = "closed"
    /\ timer_active' = FALSE
    /\ timer_left' = 0
    /\ out' = {}
    /\ emitted' = {}
    /\ lastOp' = "close"
    /\ dispatch_failed' = FALSE
    /\ dialogs' = 0
    /\ UNCHANGED <<durations, phase, secs, session_count, notified_50, notified_25,
                   ticks, ev50, ev25, evDone, at50, at25, fails,
                   focus_done, requested, notify_popup, notify_sound,
                   lbl_visible, lbl_text, held,
                   opacity, opacity_checked, chosen_opacity>>

\* the application is started again
LaunchAction ==
    /\ app = "closed"
    /\ LET l == Launch(store, notify_popup, notify_sound) IN
        /\ Install(l.s)
        /\ app' = l.app
        /\ store' = l.store
        /\ opacity' = l.opacity
        /\ opacity_checked' = l.opacity_checked
        /\ requested' = l.durations
    /\ UNCHANGED <<chosen_opacity, dialogs>>
    /\ lastOp' = "launch"
    /\ dispatch_failed' = FALSE
    /\ focus_done' = 0
    /\ held' = FALSE

\* menu "Notification > Popup": the toggled state is written to the settings,
\* where _notify reads it at every notification
TogglePopup ==
    /\ app = "running"
    /\ Install([Cur EXCEPT !.notify_popup = ~@])
    /\ lastOp' = "toggle_popup"
    /\ dispatch_failed' = FALSE
    /\ UNCHANGED <<focus_done, requested, held>>
    /\ UNCHANGED appVars

\* menu "Notification > Sound"
ToggleSound ==
    /\ app = "running"
    /\ Install([Cur EXCEPT !.notify_sound = ~@])
    /\ lastOp' = "toggle_sound"
    /\ dispatch_failed' = FALSE
    /\ UNCHANGED <<focus_done, requested, held>>
    /\ UNCHANGED appVars

\* menu "Opacity > p%": the preset becomes the checked one of its exclusive
\* group and _apply_opacity clamps, applies and persists it
ApplyOpacityAction ==
    \E p \in OpacityPresets :
        /\ app = "running"
        /\ Install(Cur)
        /\ opacity' = WindowOpacity(ClampOpacity(PresetValue(p)))
        /\ store' = [store EXCEPT !.opacity = <<ClampOpacity(PresetValue(p))>>]
        /\ opacity_checked' = p
        /\ chosen_opacity' = p
        /\ lastOp' = "apply_opacity"
        /\ dispatch_failed' = FALSE
        /\ UNCHANGED <<focus_done, requested, held, app, dialogs>>

Next ==
    \/ Elapse
    \/ TickAction
    \/ StartAction
    \/ PauseAction
    \/ ResetAction
    \/ ApplyModeAction
    \/ ShowCustomSettings
    \/ DialogAccepted
    \/ DialogRejected

Spec == Init /\ [][Next]_vars

\* the store a run leaves behind that began on a fresh installation and was
\* closed with the Durations d in effect
SavedBy(d) == SaveSettings(EmptyStore, d, WindowOpacity(ClampOpacity(0)))

\* the timer with its notification preferences, started on the settings of a
\* run with short custom durations
InitNotify == StartedFrom(SavedBy(Durations(1, 1, 2, 2)), TRUE, TRUE)

NextNotify ==
    \/ Elapse
    \/ TickAction
    \/ StartAction
    \/ PauseAction
    \/ TogglePopup
    \/ ToggleSound

SpecNotify == InitNotify /\ [][NextNotify]_vars

\* the timer across closing and starting the application, begun on the
\* settings of a run with short custom durations
InitRestart == StartedFrom(SavedBy(Durations(1, 1, 2, 2)), TRUE, TRUE)

NextRestart ==
    \/ Elapse
    \/ TickAction
    \/ StartAction
    \/ PauseAction
    \/ ResetAction
    \/ ShowCustomSettings
    \/ DialogAccepted
    \/ DialogRejected
    \/ CloseAction
    \/ LaunchAction

SpecRestart == InitRestart /\ [][NextRestart]_vars

\* the appearance menu across closing and starting the application
NextAppearance ==
    \/ ApplyOpacityAction
    \/ StartAction
    \/ PauseAction
    \/ ShowCustomSettings
    \/ DialogAccepted
    \/ DialogRejected
    \/ CloseAction
    \/ LaunchAction

SpecAppearance == Init /\ [][NextAppearance]_vars

\* what a settings store can hold for a duration key when the application
\* starts: nothing, or any integer somebody or something wrote there
StoredValues == {<<>>, <<-1>>, <<0>>, <<1>>}

Stores ==
    {[d_focus |-> f, d_break |-> b, d_long_break |-> l, d_sessions |-> n,
      opacity |-> <<>>] : f \in StoredValues, b \in StoredValues,
                          l \in StoredValues, n \in StoredValues}

InitStore == \E st \in Stores : StartedFrom(st, TRUE, TRUE)

NextStore ==
    \/ StartAction
    \/ PauseAction
    \/ ResetAction
    \/ ShowCustomSettings
    \/ DialogAccepted
    \/ DialogRejected
    \/ CloseAction
    \/ LaunchAction

SpecStore == InitStore /\ [][NextStore]_vars

\* the running timer: the QTimer fires whenever it is due
SpecLive == Init /\ [][Next]_vars /\ WF_vars(TickAction) /\ WF_vars(Elapse)

\* the types of the program's fields: _load_settings takes any stored integer
\* as a duration, so the four durations, secs and the numbers of the session
\* label are integers of either sign
TypeOK ==
    /\ durations \in [focus : Int, brk : Int, long_brk : Int, sessions : Int]
    /\ phase \in Phases
    /\ secs \in Int
    /\ session_count \in 0..MaxSessionCount
    /\ notified_50 \in BOOLEAN
    /\ notified_25 \in BOOLEAN
    /\ timer_active \in BOOLEAN
    /\ timer_left \in 0..Quanta
    /\ notify_popup \in BOOLEAN
    /\ notify_sound \in BOOLEAN
    /\ lbl_visible \in BOOLEAN
    /\ lbl_text \in Int \X Int
    /\ \A o \in out : /\ o.sink \in {"bubble", "tray", "beep"}
                      /\ o.event \in {"half", "quarter", "done"}
                      /\ o.text.idx \in 0..PoolSize
    /\ emitted \subseteq {"half", "quarter"}
    /\ held \in BOOLEAN
    /\ app \in {"running", "closed", "crashed"}
    /\ opacity \in {LevelUnits * n : n \in 51..255}
    /\ dialogs \in 0..MaxDialogs
    /\ opacity_checked \in OpacityPresets \cup {0}
    /\ chosen_opacity \in OpacityPresets \cup {0}

(***************************************************************************)
(* Properties                                                              *)
(***************************************************************************)
FocusSeconds == durations.focus * SecondsPerMinute

FreshFocus ==
    /\ phase = "focus"
    /\ secs = FocusSeconds
    /\ session_count = 0
    /\ ~notified_50
    /\ ~notified_25
    /\ ~timer_active

\* C1: reset(), from whatever state it is called in, ends with phase = focus,
\* secs = durations.focus * 60, session_count = 0, both notification flags
\* false and the timer stopped.
C1_ResetPost == lastOp = "reset" => FreshFocus

\* reset() has just run in the middle of a cycle with custom durations
C1_Witness ==
    /\ lastOp = "reset"
    /\ durations = Durations(2, 1, 1, 3)
    /\ secs = 120

\* C2: a completing tick of a Focus phase increments session_count and enters
\* long_break exactly when the incremented count is a multiple of
\* durations.sessions, else break; a completing tick of a break or long break
\* enters focus and leaves session_count alone. Hence the k-th Focus
\* completion since the last reset is followed by long_break exactly when k
\* is a multiple of durations.sessions.
C2_NextPhaseRule ==
    [][(lastOp' = "tick" /\ secs <= 0 /\ ~dispatch_failed') =>
         IF phase = "focus"
         THEN /\ session_count' = session_count + 1
              /\ phase' = (IF session_count' % durations.sessions = 0
                           THEN "long_break" ELSE "break")
              /\ (phase' = "long_break") <=> (focus_done' % durations.sessions = 0)
         ELSE /\ phase' = "focus"
              /\ session_count' = session_count]_vars

\* the 4th Focus completion under sessions = 4 has just entered long_break
C2_Witness ==
    /\ lastOp = "tick"
    /\ ticks = 0
    /\ durations.sessions = 4
    /\ focus_done = 4
    /\ phase = "long_break"

\* C3: in every reachable state 0 <= secs <= total of the current phase
\* under the installed Durations.
C3_SecsInRange ==
    /\ 0 <= secs
    /\ secs <= PhaseTotal(durations, phase)

\* a countdown has reached 0 in a long break after a custom-duration change
C3_Witness ==
    /\ secs = 0
    /\ phase = "long_break"
    /\ requested \in CustomChoices

\* C4: within one phase instance "50% remaining" is emitted at most once and
\* "25% remaining" at most once, whatever ticks, pauses and starts interleave.
C4_AtMostOncePerInstance ==
    /\ ev50 <= 1
    /\ ev25 <= 1

\* the timer was stopped and has been started again exactly at the 25%
\* threshold, both events already emitted once
C4_Witness ==
    /\ lastOp = "start"
    /\ 4 * secs = PhaseTotal(durations, phase)
    /\ ev50 = 1
    /\ ev25 = 1

\* C5 (as claimed): once secs has reached 0 through ticking, the phase-over
\* event of this phase instance has been emitted.
C5_AsClaimed == (secs = 0 /\ ticks > 0) => evDone >= 1

\* C6: in a phase of T seconds "50% remaining" is emitted on tick number T/2,
\* the tick that brings secs to T/2, and "25% remaining" on tick number 3T/4,
\* the tick that brings secs to T/4, and both have been emitted once those
\* ticks have happened; with durations (25, 5, 15, 4) in Focus these are
\* ticks 750 and 1125.
C6_ThresholdTicks ==
    LET T == PhaseTotal(durations, phase) IN
    /\ ticks <= T => secs = T - ticks
    /\ ev50 > 0 => 2 * at50 = T
    /\ ev25 > 0 => 4 * at25 = 3 * T
    /\ 2 * ticks >= T => ev50 >= 1
    /\ 4 * ticks >= 3 * T => ev25 >= 1
    /\ (durations = Durations(25, 5, 15, 4) /\ phase = "focus") =>
          /\ ev50 > 0 => at50 = 750
          /\ ev25 > 0 => at25 = 1125

\* the 1125th tick of a 25-minute Focus phase has just emitted "25% remaining"
C6_Witness ==
    /\ lastOp = "tick"
    /\ durations = Durations(25, 5, 15, 4)
    /\ phase = "focus"
    /\ ticks = 1125
    /\ at50 = 750
    /\ at25 = 1125
    /\ secs = 375

\* C7 (as claimed): the T-th tick of a phase of T seconds performs the
\* advance, so a phase instance that is still current after a tick whose
\* dispatches all worked has received fewer than T ticks.
C7_AsClaimed ==
    (lastOp = "tick" /\ ~dispatch_failed) => ticks < PhaseTotal(durations, phase)

\* C8: a mode preset or an accepted custom-duration dialog installs the new
\* Durations and resets: focus, secs = new focus * 60, session_count = 0,
\* flags false, timer stopped, a new phase instance.
C8_ModeChangeResets ==
    lastOp \in {"apply_mode", "custom"} =>
        /\ durations = requested
        /\ FreshFocus
        /\ ticks = 0

\* the 50/10 preset has just been applied
C8_Witness ==
    /\ lastOp = "apply_mode"
    /\ requested = Durations(50, 10, 20, 4)
    /\ secs = 3000

\* C9 (as claimed): start() on a running timer changes nothing, the time
\* left until the next tick included.
C9_AsClaimed ==
    [][lastOp' = "start_running" =>
         /\ timer_left' = timer_left
         /\ timer_active' = timer_active
         /\ secs' = secs
         /\ phase' = phase
         /\ session_count' = session_count
         /\ notified_50' = notified_50
         /\ notified_25' = notified_25]_vars

\* C10 (as claimed): after a tick in which a notification dispatch failed,
\* phase, secs, session_count and the timer's activity are what the same tick
\* yields when the dispatch works.
C10_AsClaimed ==
    [][(lastOp' = "tick" /\ dispatch_failed') =>
         LET ok == Tick(Cur, TRUE, TRUE) IN
         /\ phase' = ok.phase
         /\ secs' = ok.secs
         /\ session_count' = ok.session_count
         /\ timer_active' = ok.timer_active]_vars

\* C11 (as claimed): for every event kind (half, quarter, phase over) the
\* visual output (bubble or tray message) is produced only while notify_popup
\* is enabled and the beep only while notify_sound is enabled.
C11_AsClaimed ==
    \A o \in out :
        /\ o.sink = "beep" => notify_sound
        /\ o.sink \in {"bubble", "tray"} => notify_popup

\* C12 (as claimed): whenever an event of a kind reaches the display sink, the
\* text shown is one of the PoolSize strings of that kind's message pool.
C12_AsClaimed ==
    \A o \in out :
        o.sink \in {"bubble", "tray"} =>
            /\ o.text.pool = (CASE o.event = "half" -> "msgs_50"
                                [] o.event = "quarter" -> "msgs_25"
                                [] o.event = "done" -> "msgs_done")
            /\ o.text.idx \in 1..PoolSize

\* C13: the session label is visible exactly in the Focus phase, and there it
\* reads n/total with total = durations.sessions and
\* n = (session_count mod total) + 1, so that 1 <= n <= total.
C13_SessionLabel ==
    /\ lbl_visible <=> phase = "focus"
    /\ lbl_visible =>
         /\ lbl_text = <<(session_count % durations.sessions) + 1, durations.sessions>>
         /\ 1 <= lbl_text[1]
         /\ lbl_text[1] <= lbl_text[2]

\* the Focus phase after the long break of a 3-session cycle shows 1/3 again
C13_Witness ==
    /\ phase = "focus"
    /\ session_count = 3
    /\ durations.sessions = 3
    /\ lbl_visible
    /\ lbl_text = <<1, 3>>
    /\ lastOp = "tick"

\* C14: closing the application in any state and starting it again restores
\* the four durations in effect at close, and the new run begins in a fresh
\* Focus phase: secs = restored focus * 60, session_count = 0, both flags
\* false, timer stopped, whatever phase, secs and session_count were at close.
C14_RestartRoundTrip ==
    [][lastOp' = "launch" =>
         /\ app' = "running"
         /\ durations' = durations
         /\ phase' = "focus"
         /\ secs' = durations.focus * SecondsPerMinute
         /\ session_count' = 0
         /\ ~notified_50'
         /\ ~notified_25'
         /\ ~timer_active']_vars

\* the application has come up again with the custom durations that its last
\* run took from the dialog and saved when it was closed
C14_Witness ==
    /\ lastOp = "launch"
    /\ durations = Durations(2, 1, 1, 3)
    /\ store.d_long_break = <<1>>
    /\ store.d_sessions = <<3>>
    /\ phase = "focus"
    /\ secs = 120
    /\ ~timer_active

\* an opacity in whole percent, rounded to the nearest
Percent(x) == (2 * x + PercentUnits) \div (2 * PercentUnits)

\* C15 (as claimed): selecting the opacity preset p%, p in OpacityPresets,
\* sets the window opacity and the persisted opacity to exactly p%, and after
\* a restart the same preset is restored and marked as selected.
C15_AsClaimed ==
    (lastOp \in {"apply_opacity", "launch"} /\ chosen_opacity # 0) =>
        /\ Percent(opacity) = chosen_opacity
        /\ \E x \in 0..OpacityUnits :
               store.opacity = <<x>> /\ Percent(x) = chosen_opacity
        /\ opacity_checked = chosen_opacity

\* C16 (as claimed): whatever integers or missing keys the persisted
\* configuration holds at startup, all four durations are positive in every
\* reachable state (unusable values fall back to the defaults), so that no
\* handler divides by zero.
C16_AsClaimed ==
    /\ app # "crashed"
    /\ durations.focus > 0
    /\ durations.brk > 0
    /\ durations.long_brk > 0
    /\ durations.sessions > 0

\* C17: the 50% and 25% events are evaluated only while the timer is running:
\* a step taken while the timer is stopped, or that stops it first (pause,
\* reset, mode or custom-duration change, start, and the phase entry inside a
\* completing tick), emits neither event and sets neither flag to true.
C17_OnlyWhileRunning ==
    [][(\/ ~timer_active
        \/ lastOp' \in {"pause", "reset", "apply_mode", "custom", "start",
                        "start_running"}
        \/ (lastOp' = "tick" /\ secs <= 0)) =>
         /\ emitted' = {}
         /\ ev50' <= ev50
         /\ ev25' <= ev25
         /\ notified_50' => notified_50
         /\ notified_25' => notified_25]_vars

\* a completing tick has stopped the timer, sent the phase-over message,
\* entered a long break and restarted the timer: it emitted no threshold event
\* and the flags of the new phase are clear
C17_Witness ==
    /\ lastOp = "tick"
    /\ ticks = 0
    /\ phase = "long_break"
    /\ \E o \in out : o.event = "done"
    /\ emitted = {}
    /\ ~notified_50
    /\ ~notified_25

\* C18 (as claimed): once running, with ticks delivered whenever due and no
\* pause, reset or duration change, the timer never stops on its own (and so
\* every phase completes and the cycle goes on for ever).
C18_AsClaimed ==
    [][(timer_active /\ lastOp' \in {"tick", "elapse"}) => timer_active']_vars

\* C19: in every reachable state notified_50 holds exactly when
\* 2 * secs <= total and notified_25 exactly when 4 * secs <= total, total
\* being the length of the current phase; so both are false at phase entry,
\* no reached threshold is left un-notified, and notified_25 implies
\* notified_50.
C19_FlagsMatchThresholds ==
    LET total == PhaseTotal(durations, phase) IN
    /\ notified_50 <=> (2 * secs <= total)
    /\ notified_25 <=> (4 * secs <= total)
    /\ notified_25 => notified_50

\* a break entered by a completing tick right after a Focus phase whose two
\* flags were set: both flags are clear again at full duration
C19_Witness ==
    /\ lastOp = "tick"
    /\ ticks = 0
    /\ phase = "break"
    /\ secs = PhaseTotal(durations, phase)
    /\ ~notified_50
    /\ ~notified_25
    /\ timer_active

\* C20 (as claimed): pause() leaves phase, secs and session_count alone and
\* the timer stopped; and when pause() came at secs = 0 before the completing
\* tick, the first tick after a later start() performs the completion and the
\* advance to the next phase, once.
C20_AsClaimed ==
    [][/\ lastOp' = "pause" =>
            /\ ~timer_active'
            /\ phase' = phase
            /\ secs' = secs
            /\ session_count' = session_count
       /\ (held /\ lastOp' = "tick") =>
            LET count == IF phase = "focus" THEN session_count + 1
                         ELSE session_count IN
            /\ session_count' = count
            /\ phase' = NextPhase(phase, count, durations)
            /\ secs' = PhaseTotal(durations, phase')
            /\ timer_active'
            /\ ~held']_vars

============================================================================
